---- MODULE Spec2Model ----
(***************************************************************************)
(* A model of the xsd helper namespace of kapa-xsd (xsd.js): six pure     *)
(* query functions over a parsed XML Schema DOM tree.                      *)
(*                                                                         *)
(* Strings that the code takes apart or concatenates (attribute values,    *)
(* names, selectors) are sequences of one-character strings.  Namespace    *)
(* URIs are only ever compared, and are TLA+ strings.                      *)
(*                                                                         *)
(* A document is a sequence of elements in document (pre-)order; element   *)
(* i holds the index of its parent (0 for the root element).               *)
(***************************************************************************)
EXTENDS Integers, Sequences, FiniteSets, TLC

VARIABLES doc, call, result

vars == <<doc, call, result>>

\* Largest number of elements of a document.
MaxNodes == 3
\* Largest length of a generated attribute value.
MaxLen == 3

-----------------------------------------------------------------------------
(* Javascript values *)

Null == [t |-> "null"]
Undefined == [t |-> "undefined"]
NaN == [t |-> "NaN"]
Infinity == [t |-> "Infinity"]
Str(s) == [t |-> "string", v |-> s]
Uri(u) == [t |-> "uri", v |-> u]
Num(n) == [t |-> "number", v |-> n]
Element(i) == [t |-> "element", v |-> i]
List(s) == [t |-> "list", v |-> s]
Obj(o) == [t |-> "object", v |-> o]
Throw(e) == [t |-> "throw", v |-> e]

\* The truth value Javascript gives a string, null or undefined in a condition.
Truthy(x) ==
    CASE x.t = "string" -> x.v # <<>>
      [] x.t = "uri" -> x.v # ""
      [] OTHER -> FALSE

\* All strings over an alphabet, up to a length.
Strs(alphabet, n) == UNION {[1..k -> alphabet] : k \in 0..n}

-----------------------------------------------------------------------------
(* Names and namespaces *)

xs == "http://www.w3.org/2001/XMLSchema"
xsi == "http://www.w3.org/2001/XMLSchema-instance"
\* A namespace that is not the XML Schema namespace, and the null namespace.
OtherNS == "urn:other"
ThirdNS == "urn:third"
NoNS == ""

S_element == <<"e","l","e","m","e","n","t">>
S_complexType == <<"c","o","m","p","l","e","x","T","y","p","e">>
S_simpleType == <<"s","i","m","p","l","e","T","y","p","e">>
S_restriction == <<"r","e","s","t","r","i","c","t","i","o","n">>
S_schema == <<"s","c","h","e","m","a">>
S_pattern == <<"p","a","t","t","e","r","n">>
S_name == <<"n","a","m","e">>
S_base == <<"b","a","s","e">>
S_type == <<"t","y","p","e">>
S_minOccurs == <<"m","i","n","O","c","c","u","r","s">>
S_maxOccurs == <<"m","a","x","O","c","c","u","r","s">>
S_unbounded == <<"u","n","b","o","u","n","d","e","d">>
S_xs == <<"x","s">>
S_xsi == <<"x","s","i">>

-----------------------------------------------------------------------------
(* The DOM the functions are given *)

NoDecls == [p \in {} |-> ""]

\* The declaration xmlns="ns" of an unprefixed element in namespace ns.
DefaultDecl(ns) == (<<>> :> ns)

\* An attribute; prefix <<>> and namespace NoNS for an unprefixed one.
Attr(ns, prefix, local, value) ==
    [namespaceURI |-> ns, prefix |-> prefix, localName |-> local, value |-> value]

PlainAttr(local, value) == Attr(NoNS, <<>>, local, value)

\* An element; xmlns maps the prefixes it declares to the URIs it binds them to.
Elem(parent, prefix, ns, local, attrs, decls) ==
    [parent |-> parent, prefix |-> prefix, namespaceURI |-> ns,
     localName |-> local, attrs |-> attrs, xmlns |-> decls]

Indices(d) == [k \in 1..Len(d) |-> k]

\* node.children: the child elements, in document order.
Children(d, i) == SelectSeq(Indices(d), LAMBDA j : d[j].parent = i)

QName(a) == IF a.prefix = <<>> THEN a.localName ELSE a.prefix \o <<":">> \o a.localName

\* node.getAttribute(qualifiedName): null when there is no such attribute.
GetAttribute(el, qname) ==
    LET hits == {a \in el.attrs : QName(a) = qname}
    IN IF hits = {} THEN Null ELSE Str((CHOOSE a \in hits : TRUE).value)

\* node.getAttributeNS(namespace, localName).
GetAttributeNS(el, ns, local) ==
    LET hits == {a \in el.attrs : a.namespaceURI = ns /\ a.localName = local}
    IN IF hits = {} THEN Null ELSE Str((CHOOSE a \in hits : TRUE).value)

RECURSIVE LookupNamespaceURI(_, _, _)
\* node.lookupNamespaceURI(prefix): the DOM's "locate a namespace", which walks
\* from the node towards the root; the prefix <<>> asks for the default namespace.
LookupNamespaceURI(d, i, prefix) ==
    LET el == d[i] IN
    IF el.namespaceURI # NoNS /\ el.prefix = prefix THEN Uri(el.namespaceURI)
    ELSE IF prefix \in DOMAIN el.xmlns
         THEN (IF el.xmlns[prefix] = NoNS THEN Null ELSE Uri(el.xmlns[prefix]))
    ELSE IF el.parent = 0 THEN Null
    ELSE LookupNamespaceURI(d, el.parent, prefix)

\* _(collection).find(predicate): the first member the predicate accepts,
\* the predicate being given as the set of elements it accepts.
Find(seq, accepted) ==
    LET hits == SelectSeq(seq, LAMBDA x : x \in accepted)
    IN IF hits = <<>> THEN Undefined ELSE Element(hits[1])

-----------------------------------------------------------------------------
(* The shapes of documents *)

RECURSIVE AncestorsOrSelf(_, _)
AncestorsOrSelf(p, i) == IF i = 0 THEN {} ELSE {i} \cup AncestorsOrSelf(p, p[i])

\* Parent maps of n elements numbered in document order.
Shapes(n) ==
    {p \in [1..n -> 0..(n - 1)] :
        /\ p[1] = 0
        /\ \A i \in 2..n : p[i] \in AncestorsOrSelf(p, i - 1)}

\* The documents of a given root whose other elements are drawn from kinds;
\* a kind is an element without its parent.
WithParent(k, parent) ==
    Elem(parent, k.prefix, k.namespaceURI, k.localName, k.attrs, k.xmlns)

\* The document of a shape p whose root is given and whose other elements are
\* the kinds ks.
DocOf(root, p, ks) ==
    [i \in DOMAIN p |-> IF i = 1 THEN root ELSE WithParent(ks[i], p[i])]

SchemaRoot ==
    Elem(0, S_xs, xs, S_schema, {},
         (S_xs :> xs) @@ (<<"p">> :> OtherNS))

NoCall == [op |-> "none"]

-----------------------------------------------------------------------------
(* xsd.findElement *)

\* findElement searching every element below the root instead of its children.
findElementAnyDepth(d, name) ==
    Find(SelectSeq(Indices(d), LAMBDA j : j # 1),
         {child \in 1..Len(d) :
            /\ d[child].namespaceURI = xs
            /\ d[child].localName = S_element
            /\ GetAttribute(d[child], S_name) = Str(name)})

findElement(d, name) ==
    Find(Children(d, 1),
         {child \in 1..Len(d) :
            /\ d[child].namespaceURI = xs
            /\ d[child].localName = S_element
            /\ GetAttribute(d[child], S_name) = Str(name)})

ElementNames == {<<"a">>, <<"b">>}

NameAttrs == {{}} \cup {{PlainAttr(S_name, n)} : n \in ElementNames}

ElementKinds ==
    {Elem(0, <<>>, ns, local, attrs, DefaultDecl(ns)) :
        ns \in {xs, OtherNS}, local \in {S_element, S_complexType}, attrs \in NameAttrs}

InitElement ==
    /\ \E n \in 1..MaxNodes :
          \E p \in Shapes(n), ks \in [2..n -> ElementKinds] :
             doc = DocOf(SchemaRoot, p, ks)
    /\ call = NoCall
    /\ result = Undefined

FindElementCall ==
    \E name \in ElementNames :
        /\ call' = [op |-> "findElement", name |-> name]
        /\ result' = findElement(doc, name)
        /\ UNCHANGED doc

NextElement == FindElementCall

SpecElement == InitElement /\ [][NextElement]_vars

-----------------------------------------------------------------------------
(* xsd.findTypeDefinition *)

\* doc.querySelectorAll(selector) for the selectors the code can build from
\* the type names tried here: a comma-separated list of compound selectors,
\* each an optional type selector (a name or *) followed by attribute
\* selectors [attr], [attr=ident] or [attr="string"].  A type selector names
\* no namespace, so it matches the local name in every namespace; an
\* attribute selector without prefix matches attributes in no namespace.
\* A selector outside this grammar makes querySelectorAll throw SyntaxError.
SelectorSpecial == {"[", "]", "=", "\"", ",", "*"}

IsIdentChar(c) == c \notin SelectorSpecial

RECURSIVE IdentEnd(_, _)
\* The first position at or after i that holds no identifier character.
IdentEnd(s, i) ==
    IF i > Len(s) \/ ~IsIdentChar(s[i]) THEN i ELSE IdentEnd(s, i + 1)

RECURSIVE StringEnd(_, _)
\* The position of the quote closing a string whose text starts at i; 0 if none.
StringEnd(s, i) ==
    IF i > Len(s) THEN 0 ELSE IF s[i] = "\"" THEN i ELSE StringEnd(s, i + 1)

At(s, i, c) == i <= Len(s) /\ s[i] = c

Failed == [ok |-> FALSE]

\* An attribute selector starting at the [ at position i.
ParseAttrib(s, i) ==
    LET n1 == IdentEnd(s, i + 1)
        attr == SubSeq(s, i + 1, n1 - 1)
    IN IF n1 = i + 1 THEN Failed
       ELSE IF At(s, n1, "]")
            THEN [ok |-> TRUE, next |-> n1 + 1,
                  test |-> [attr |-> attr, hasValue |-> FALSE, value |-> <<>>]]
       ELSE IF ~At(s, n1, "=") THEN Failed
       ELSE IF At(s, n1 + 1, "\"")
            THEN LET e == StringEnd(s, n1 + 2)
                 IN IF e # 0 /\ At(s, e + 1, "]")
                    THEN [ok |-> TRUE, next |-> e + 2,
                          test |-> [attr |-> attr, hasValue |-> TRUE,
                                    value |-> SubSeq(s, n1 + 2, e - 1)]]
                    ELSE Failed
       ELSE LET n2 == IdentEnd(s, n1 + 1)
            IN IF n2 > n1 + 1 /\ At(s, n2, "]")
               THEN [ok |-> TRUE, next |-> n2 + 1,
                     test |-> [attr |-> attr, hasValue |-> TRUE,
                               value |-> SubSeq(s, n1 + 1, n2 - 1)]]
               ELSE Failed

RECURSIVE ParseAttribs(_, _)
\* The attribute selectors starting at position i, as many as follow.
ParseAttribs(s, i) ==
    IF ~At(s, i, "[") THEN [ok |-> TRUE, next |-> i, tests |-> <<>>]
    ELSE LET a == ParseAttrib(s, i)
         IN IF ~a.ok THEN Failed
            ELSE LET rest == ParseAttribs(s, a.next)
                 IN IF ~rest.ok THEN Failed
                    ELSE [ok |-> TRUE, next |-> rest.next,
                          tests |-> <<a.test>> \o rest.tests]

\* A compound selector starting at position i; the tag <<>> is "any element".
ParseCompound(s, i) ==
    LET j == IF At(s, i, "*") THEN i + 1 ELSE IdentEnd(s, i)
        tag == IF At(s, i, "*") THEN <<>> ELSE SubSeq(s, i, j - 1)
        as == ParseAttribs(s, j)
    IN IF ~as.ok \/ as.next = i THEN Failed
       ELSE [ok |-> TRUE, next |-> as.next,
             sel |-> [tag |-> tag, tests |-> as.tests]]

RECURSIVE ParseSelectorList(_, _)
ParseSelectorList(s, i) ==
    LET c == ParseCompound(s, i)
    IN IF ~c.ok THEN Failed
       ELSE IF c.next > Len(s) THEN [ok |-> TRUE, sels |-> <<c.sel>>]
       ELSE IF ~At(s, c.next, ",") THEN Failed
       ELSE LET rest == ParseSelectorList(s, c.next + 1)
            IN IF ~rest.ok THEN Failed
               ELSE [ok |-> TRUE, sels |-> <<c.sel>> \o rest.sels]

MatchesCompound(el, sel) ==
    /\ sel.tag = <<>> \/ el.localName = sel.tag
    /\ \A k \in 1..Len(sel.tests) :
          \E a \in el.attrs :
             /\ a.namespaceURI = NoNS
             /\ a.localName = sel.tests[k].attr
             /\ sel.tests[k].hasValue => a.value = sel.tests[k].value

querySelectorAll(d, selector) ==
    LET parsed == ParseSelectorList(selector, 1)
    IN IF ~parsed.ok THEN Throw("SyntaxError")
       ELSE List(SelectSeq(Indices(d),
                 LAMBDA j : \E k \in 1..Len(parsed.sels) :
                               MatchesCompound(d[j], parsed.sels[k])))

findTypeDefinition(d, type) ==
    LET selector ==
            S_complexType \o <<"[">> \o S_name \o <<"=", "\"">> \o type \o <<"\"", "]", ",">>
            \o S_simpleType \o <<"[">> \o S_name \o <<"=", "\"">> \o type \o <<"\"", "]">>
    IN querySelectorAll(d, selector)

\* A type name that closes the quoted value and goes on with a selector of its own.
InjectedTypeName == <<"a", "\"", "]", ",", "*", "[">> \o S_name \o <<"=", "\"", "a">>

TypeNames == {<<"a">>, <<"b">>, <<"c">>, <<>>, <<"\"">>, InjectedTypeName}

TypeKinds ==
    {Elem(0, <<>>, ns, local, attrs, DefaultDecl(ns)) :
        ns \in {xs, OtherNS},
        local \in {S_element, S_complexType, S_simpleType},
        attrs \in NameAttrs}

InitTypeDefinition ==
    /\ \E n \in 1..MaxNodes :
          \E p \in Shapes(n), ks \in [2..n -> TypeKinds] :
             doc = DocOf(SchemaRoot, p, ks)
    /\ call = NoCall
    /\ result = Undefined

FindTypeDefinitionCall ==
    \E type \in TypeNames :
        /\ call' = [op |-> "findTypeDefinition", type |-> type]
        /\ result' = findTypeDefinition(doc, type)
        /\ UNCHANGED doc

NextTypeDefinition == FindTypeDefinitionCall

SpecTypeDefinition == InitTypeDefinition /\ [][NextTypeDefinition]_vars

-----------------------------------------------------------------------------
(* xsd.getTypeFromNodeAttr *)

\* split that cuts at the first separator only.
SplitFirst(s, sep) ==
    LET at == {i \in 1..Len(s) : s[i] = sep}
    IN IF at = {} THEN <<s>>
       ELSE LET i == CHOOSE k \in at : \A m \in at : k <= m
            IN <<SubSeq(s, 1, i - 1), SubSeq(s, i + 1, Len(s))>>

RECURSIVE Split(_, _)
\* string.split(separator): the pieces between every two separators.
Split(s, sep) ==
    LET at == {i \in 1..Len(s) : s[i] = sep}
    IN IF at = {} THEN <<s>>
       ELSE LET i == CHOOSE k \in at : \A m \in at : k <= m
            IN <<SubSeq(s, 1, i - 1)>> \o Split(SubSeq(s, i + 1, Len(s)), sep)

\* array[k] of Javascript, counted from 0: undefined past the end.
Part(parts, k) == IF k + 1 <= Len(parts) THEN Str(parts[k + 1]) ELSE Undefined

\* getTypeFromNodeAttr resolving the prefix at the document element.
getTypeFromNodeAttrAtRoot(d, node, typeAttr, typeAttrNS) ==
    LET type == IF Truthy(typeAttrNS)
                THEN GetAttributeNS(d[node], typeAttrNS.v, typeAttr)
                ELSE GetAttribute(d[node], typeAttr)
    IN IF Truthy(type)
       THEN LET parts == Split(type.v, ":")
            IN Obj([namespaceURI |-> LookupNamespaceURI(d, 1, Part(parts, 0).v),
                    name |-> Part(parts, 1)])
       ELSE Null

\* getTypeFromNodeAttr that never looks at the attribute namespace.
getTypeFromNodeAttrNoNS(d, node, typeAttr, typeAttrNS) ==
    LET type == GetAttribute(d[node], typeAttr)
    IN IF Truthy(type)
       THEN LET parts == Split(type.v, ":")
            IN Obj([namespaceURI |-> LookupNamespaceURI(d, node, Part(parts, 0).v),
                    name |-> Part(parts, 1)])
       ELSE Null

getTypeFromNodeAttr(d, node, typeAttr, typeAttrNS) ==
    LET type == IF Truthy(typeAttrNS)
                THEN GetAttributeNS(d[node], typeAttrNS.v, typeAttr)
                ELSE GetAttribute(d[node], typeAttr)
    IN IF Truthy(type)
       THEN LET parts == Split(type.v, ":")
            IN Obj([namespaceURI |-> LookupNamespaceURI(d, node, Part(parts, 0).v),
                    name |-> Part(parts, 1)])
       ELSE Null

\* The attribute values tried: every short string of prefix letters and
\* colons, the qualified name xs:string, and p:q:p with its two colons.
S_xsString == S_xs \o <<":", "s", "t", "r", "i", "n", "g">>

S_pqp == <<"p", ":", "q", ":", "p">>

TypeValues == Strs({"p", "q", ":"}, MaxLen) \cup {S_xsString, S_pqp}

\* The attributes of the elements of a document: `type` unprefixed, `xsi:type`,
\* both, or neither.
TypeAttrSets ==
    {plain \cup inst :
        plain \in {{}} \cup {{PlainAttr(S_type, v)} : v \in TypeValues},
        inst \in {{}} \cup {{Attr(xsi, S_xsi, S_type, v)} : v \in {<<>>, <<"q", ":", "p">>}}}

\* What an element may declare for the prefix p.
PrefixDecls == {NoDecls} \cup {(<<"p">> :> u) : u \in {OtherNS, ThirdNS}}

\* A chain of xs:element elements: the root declares xs and xsi, every element
\* may rebind p (decls), and all carry the same attributes.
TypeAttrDoc(decls, attrs) ==
    [i \in DOMAIN decls |->
        Elem(i - 1, S_xs, xs, S_element, attrs,
             IF i = 1 THEN decls[i] @@ (S_xs :> xs) @@ (S_xsi :> xsi) ELSE decls[i])]

AttrNamespaces == {Undefined, Uri(NoNS), Uri(xsi)}

InitTypeAttr ==
    /\ \E n \in 1..MaxNodes :
          \E decls \in [1..n -> PrefixDecls], attrs \in TypeAttrSets :
             doc = TypeAttrDoc(decls, attrs)
    /\ call = NoCall
    /\ result = Undefined

GetTypeFromNodeAttrCall ==
    \E node \in 1..Len(doc), typeAttrNS \in AttrNamespaces :
        /\ call' = [op |-> "getTypeFromNodeAttr", node |-> node,
                    typeAttr |-> S_type, typeAttrNS |-> typeAttrNS]
        /\ result' = getTypeFromNodeAttr(doc, node, S_type, typeAttrNS)
        /\ UNCHANGED doc

NextTypeAttr == GetTypeFromNodeAttrCall

SpecTypeAttr == InitTypeAttr /\ [][NextTypeAttr]_vars

-----------------------------------------------------------------------------
(* xsd.getRestrictedType and xsd.findRestrictingFacets *)

\* getRestrictedType that accepts a restriction child of any namespace.
getRestrictedTypeAnyNS(d, node) ==
    LET element == Find(Children(d, node),
                        {child \in 1..Len(d) : d[child].localName = S_restriction})
    IN IF element # Undefined
       THEN getTypeFromNodeAttr(d, element.v, S_base, Undefined)
       ELSE Null

getRestrictedType(d, node) ==
    LET element == Find(Children(d, node),
                        {child \in 1..Len(d) :
                           /\ d[child].namespaceURI = xs
                           /\ d[child].localName = S_restriction})
    IN IF element # Undefined
       THEN getTypeFromNodeAttr(d, element.v, S_base, Undefined)
       ELSE Null

\* findRestrictingFacets that answers with no facets when there is no restriction.
findRestrictingFacetsLenient(d, node) ==
    LET element == Find(Children(d, node),
                        {child \in 1..Len(d) :
                           /\ d[child].namespaceURI = xs
                           /\ d[child].localName = S_restriction})
    IN IF element = Undefined
       THEN List(<<>>)
       ELSE List(Children(d, element.v))

findRestrictingFacets(d, node) ==
    LET element == Find(Children(d, node),
                        {child \in 1..Len(d) :
                           /\ d[child].namespaceURI = xs
                           /\ d[child].localName = S_restriction})
    IN IF element = Undefined
       THEN Throw("TypeError")
       ELSE List(Children(d, element.v))

BaseValues == {<<>>, <<"p", ":", "a">>, <<"q", ":", "b">>}

BaseAttrs == {{}} \cup {{PlainAttr(S_base, v)} : v \in BaseValues}

RestrictionKinds ==
    {Elem(0, <<>>, ns, local, attrs, DefaultDecl(ns)) :
        ns \in {xs, OtherNS}, local \in {S_restriction, S_pattern}, attrs \in BaseAttrs}

InitRestriction ==
    /\ \E n \in 1..MaxNodes :
          \E p \in Shapes(n), ks \in [2..n -> RestrictionKinds] :
             doc = DocOf(SchemaRoot, p, ks)
    /\ call = NoCall
    /\ result = Undefined

GetRestrictedTypeCall ==
    \E node \in 1..Len(doc) :
        /\ call' = [op |-> "getRestrictedType", node |-> node]
        /\ result' = getRestrictedType(doc, node)
        /\ UNCHANGED doc

FindRestrictingFacetsCall ==
    \E node \in 1..Len(doc) :
        /\ call' = [op |-> "findRestrictingFacets", node |-> node]
        /\ result' = findRestrictingFacets(doc, node)
        /\ UNCHANGED doc

NextRestriction == GetRestrictedTypeCall \/ FindRestrictingFacetsCall

SpecRestriction == InitRestriction /\ [][NextRestriction]_vars

-----------------------------------------------------------------------------
(* xsd.parseMinMaxOccurs *)

DigitChars == <<"0", "1", "2", "3", "4", "5", "6", "7", "8", "9">>

IsDigit(c) == \E k \in 1..Len(DigitChars) : DigitChars[k] = c

DigitValue(c) == (CHOOSE k \in 1..Len(DigitChars) : DigitChars[k] = c) - 1

WhiteSpace == {" ", "\t", "\n", "\r"}

RECURSIVE SkipWhiteSpace(_)
SkipWhiteSpace(s) ==
    IF s # <<>> /\ Head(s) \in WhiteSpace THEN SkipWhiteSpace(Tail(s)) ELSE s

RECURSIVE DigitsValue(_, _)
\* The number read from the digits at the start of s, acc being the number
\* read so far; reading stops at the first character that is no digit.
DigitsValue(s, acc) ==
    IF s = <<>> \/ ~IsDigit(Head(s)) THEN acc
    ELSE DigitsValue(Tail(s), 10 * acc + DigitValue(Head(s)))

\* parseInt(string, 10): leading white space is skipped, a sign is read, then
\* the longest run of digits; NaN when that run is empty.
parseInt(s) ==
    LET t == SkipWhiteSpace(s)
        signed == t # <<>> /\ Head(t) \in {"-", "+"}
        sign == IF t # <<>> /\ Head(t) = "-" THEN -1 ELSE 1
        z == IF signed THEN Tail(t) ELSE t
    IN IF z = <<>> \/ ~IsDigit(Head(z)) THEN NaN
       ELSE Num(sign * DigitsValue(z, 0))

\* parseMinMaxOccurs that takes 'unbounded' for minOccurs as well.
parseMinMaxOccursUnboundedMin(xsdNode) ==
    LET minAttr == GetAttribute(xsdNode, S_minOccurs)
        min == IF minAttr = Null \/ minAttr = Str(<<>>) THEN Num(1)
               ELSE IF minAttr = Str(S_unbounded) THEN Infinity
               ELSE parseInt(minAttr.v)
        maxAttr == GetAttribute(xsdNode, S_maxOccurs)
        max == IF maxAttr = Null \/ maxAttr = Str(<<>>) THEN Num(1)
               ELSE IF maxAttr = Str(S_unbounded) THEN Infinity
               ELSE parseInt(maxAttr.v)
    IN Obj([min |-> min, max |-> max])

parseMinMaxOccurs(xsdNode) ==
    LET minAttr == GetAttribute(xsdNode, S_minOccurs)
        min == IF minAttr = Null \/ minAttr = Str(<<>>) THEN Num(1)
               ELSE parseInt(minAttr.v)
        maxAttr == GetAttribute(xsdNode, S_maxOccurs)
        max == IF maxAttr = Null \/ maxAttr = Str(<<>>) THEN Num(1)
               ELSE IF maxAttr = Str(S_unbounded) THEN Infinity
               ELSE parseInt(maxAttr.v)
    IN Obj([min |-> min, max |-> max])

OccursValues == Strs({"0", "5", "-", "a"}, MaxLen) \cup {S_unbounded}

OccursAttrs(local) == {{}} \cup {{PlainAttr(local, v)} : v \in OccursValues}

\* One xs:element particle under the schema root.
OccursDoc(attrs) == <<SchemaRoot, Elem(1, S_xs, xs, S_element, attrs, NoDecls)>>

InitOccurs ==
    /\ \E mins \in OccursAttrs(S_minOccurs), maxs \in OccursAttrs(S_maxOccurs) :
          doc = OccursDoc(mins \cup maxs)
    /\ call = NoCall
    /\ result = Undefined

ParseMinMaxOccursCall ==
    \E node \in 1..Len(doc) :
        /\ call' = [op |-> "parseMinMaxOccurs", node |-> node]
        /\ result' = parseMinMaxOccurs(doc[node])
        /\ UNCHANGED doc

NextOccurs == ParseMinMaxOccursCall

SpecOccurs == InitOccurs /\ [][NextOccurs]_vars

-----------------------------------------------------------------------------
(* Properties *)

\* The least member of a non-empty set of positions: the first in document order.
First(S) == CHOOSE j \in S : \A k \in S : j <= k

\* Whether an element carries the unprefixed attribute `local` with this value.
HasPlainAttr(el, local, value) ==
    \E a \in el.attrs : a.prefix = <<>> /\ a.localName = local /\ a.value = value

\* The values of the unprefixed attribute `local` of an element (none or one).
PlainValues(el, local) ==
    {a.value : a \in {b \in el.attrs : b.prefix = <<>> /\ b.localName = local}}

IsElementDecl(d, j, name) ==
    /\ d[j].namespaceURI = xs
    /\ d[j].localName = S_element
    /\ HasPlainAttr(d[j], S_name, name)

\* C1: findElement(D, N) returns the first direct child of the root that is an
\* xs:element with name N, is absent when the root has no such child, and never
\* returns an element that is not a child of the root.
C1_FindElementDirectChildren ==
    call.op = "findElement" =>
        LET matches == {j \in 1..Len(doc) :
                            doc[j].parent = 1 /\ IsElementDecl(doc, j, call.name)}
        IN IF matches = {} THEN result = Undefined
           ELSE result = Element(First(matches))

\* C1 witness: an xs:element of the name asked for is nested below a child of
\* the root, the root has no such child, and findElement found nothing.
C1_Witness ==
    /\ call.op = "findElement"
    /\ \E j \in 1..Len(doc) : doc[j].parent > 1 /\ IsElementDecl(doc, j, call.name)
    /\ result = Undefined

\* C2: findTypeDefinition(D, T) returns exactly the xs:complexType and
\* xs:simpleType elements of D whose name is T, in document order, for every T.
C2_FindTypeDefinitionExact ==
    call.op = "findTypeDefinition" =>
        result = List(SelectSeq(Indices(doc),
                        LAMBDA j :
                           /\ doc[j].namespaceURI = xs
                           /\ doc[j].localName \in {S_complexType, S_simpleType}
                           /\ HasPlainAttr(doc[j], S_name, call.type)))

RECURSIVE InScopeBindings(_, _)
\* The namespace declarations in scope at element i, read from the root down:
\* a declaration of an element overrides those of its ancestors.
InScopeBindings(d, i) ==
    IF i = 0 THEN NoDecls ELSE d[i].xmlns @@ InScopeBindings(d, d[i].parent)

BoundURI(d, i, prefix) ==
    LET b == InScopeBindings(d, i)
    IN IF prefix \in DOMAIN b THEN Uri(b[prefix]) ELSE Null

\* The values of the attribute a call of getTypeFromNodeAttr is to read: the
\* one in the attribute namespace when one is given, the unprefixed one otherwise.
SelectedValues(d, c) ==
    {a.value : a \in {b \in d[c.node].attrs :
                        /\ b.localName = c.typeAttr
                        /\ IF c.typeAttrNS = Undefined THEN b.prefix = <<>>
                           ELSE b.namespaceURI = c.typeAttrNS.v}}

Colons(v) == {i \in 1..Len(v) : v[i] = ":"}

\* C3: for a value prefix:local, getTypeFromNodeAttr returns the URI bound to
\* the prefix by the declarations in scope at the node, and the name local;
\* xs:string with xs bound to the XML Schema namespace gives that namespace
\* and the name string.
C3_TypeReferenceResolvedAtNode ==
    call.op = "getTypeFromNodeAttr" =>
        \A v \in SelectedValues(doc, call) :
            /\ (Cardinality(Colons(v)) = 1 /\ v[1] # ":" /\ v[Len(v)] # ":") =>
                    LET i == First(Colons(v))
                    IN result = Obj([namespaceURI |->
                                        BoundURI(doc, call.node, SubSeq(v, 1, i - 1)),
                                     name |-> Str(SubSeq(v, i + 1, Len(v)))])
            /\ v = S_xsString =>
                    result = Obj([namespaceURI |-> Uri(xs),
                                  name |-> Str(<<"s", "t", "r", "i", "n", "g">>)])

\* C3 witness: the prefix p is bound to one URI at the root and to another at
\* the node asked about, and the result carries the node's binding.
C3_Witness ==
    /\ call.op = "getTypeFromNodeAttr"
    /\ call.node > 1
    /\ SelectedValues(doc, call) = {<<"p", ":", "q">>}
    /\ BoundURI(doc, 1, <<"p">>) = Uri(OtherNS)
    /\ result = Obj([namespaceURI |-> Uri(ThirdNS), name |-> Str(<<"q">>)])

\* C4: getTypeFromNodeAttr reads the attribute of the given namespace when one
\* is given and the unprefixed attribute otherwise; it returns null exactly
\* when that attribute is absent or empty, and a type reference otherwise.
C4_NullIffAbsentOrEmpty ==
    call.op = "getTypeFromNodeAttr" =>
        LET vals == SelectedValues(doc, call)
        IN IF vals = {} \/ vals = {<<>>} THEN result = Null
           ELSE result.t = "object"

\* C4 witness: the call names the xsi namespace, xsi:type is empty while the
\* unprefixed type attribute is not, and the result is null.
C4_Witness ==
    /\ call.op = "getTypeFromNodeAttr"
    /\ call.typeAttrNS = Uri(xsi)
    /\ SelectedValues(doc, call) = {<<>>}
    /\ \E v \in PlainValues(doc[call.node], S_type) : v # <<>>
    /\ result = Null

\* C5 (as claimed): the prefix resolved is the text before the first colon and
\* the name is all the text after the first colon; without a colon the whole
\* value is the prefix and the name is undefined.
C5_SplitOnFirstColonOnly ==
    call.op = "getTypeFromNodeAttr" =>
        \A v \in SelectedValues(doc, call) :
            v # <<>> =>
                IF Colons(v) = {}
                THEN result = Obj([namespaceURI |-> BoundURI(doc, call.node, v),
                                   name |-> Undefined])
                ELSE LET i == First(Colons(v))
                     IN result = Obj([namespaceURI |->
                                         BoundURI(doc, call.node, SubSeq(v, 1, i - 1)),
                                      name |-> Str(SubSeq(v, i + 1, Len(v)))])

\* C5 (amended): the prefix resolved is the text before the first colon and the
\* name is the text between the first colon and the second, or the end of the
\* value when there is no second colon; without a colon the whole value is the
\* prefix and the name is undefined.
C5_SplitOnEveryColon ==
    call.op = "getTypeFromNodeAttr" =>
        \A v \in SelectedValues(doc, call) :
            v # <<>> =>
                IF Colons(v) = {}
                THEN result = Obj([namespaceURI |-> BoundURI(doc, call.node, v),
                                   name |-> Undefined])
                ELSE LET i == First(Colons(v))
                         later == {k \in Colons(v) : k > i}
                         end == IF later = {} THEN Len(v) ELSE First(later) - 1
                     IN result = Obj([namespaceURI |->
                                         BoundURI(doc, call.node, SubSeq(v, 1, i - 1)),
                                      name |-> Str(SubSeq(v, i + 1, end))])

\* C5 witness: the value p:q:p has two colons and the name returned is q.
C5_Witness ==
    /\ call.op = "getTypeFromNodeAttr"
    /\ SelectedValues(doc, call) = {S_pqp}
    /\ result.t = "object"
    /\ result.v.name = Str(<<"q">>)

\* The children of a node that are xs:restriction elements.
Restrictions(d, node) ==
    {j \in 1..Len(d) :
        d[j].parent = node /\ d[j].namespaceURI = xs /\ d[j].localName = S_restriction}

\* C6: getRestrictedType(node) is null when node has no xs:restriction child,
\* and otherwise what getTypeFromNodeAttr gives for the base attribute of the
\* first such child; a restriction of another namespace or deeper is ignored.
C6_RestrictedTypeOfFirstRestriction ==
    call.op = "getRestrictedType" =>
        LET rs == Restrictions(doc, call.node)
        IN IF rs = {} THEN result = Null
           ELSE result = getTypeFromNodeAttr(doc, First(rs), S_base, Undefined)

\* C6 witness: a restriction of another namespace comes before the
\* xs:restriction, both have a base, and the base resolved is the second one's.
C6_Witness ==
    /\ call.op = "getRestrictedType"
    /\ \E j, k \in 1..Len(doc) :
          /\ j < k
          /\ doc[j].parent = call.node /\ doc[k].parent = call.node
          /\ doc[j].localName = S_restriction /\ doc[j].namespaceURI = OtherNS
          /\ HasPlainAttr(doc[j], S_base, <<"p", ":", "a">>)
          /\ k \in Restrictions(doc, call.node)
          /\ HasPlainAttr(doc[k], S_base, <<"q", ":", "b">>)
    /\ result = Obj([namespaceURI |-> Null, name |-> Str(<<"b">>)])

\* Whether a result is the list of all children of element r, in document order.
IsChildListOf(d, r, res) ==
    /\ res.t = "list"
    /\ {res.v[k] : k \in 1..Len(res.v)} = {j \in 1..Len(d) : d[j].parent = r}
    /\ \A k \in 1..(Len(res.v) - 1) : res.v[k] < res.v[k + 1]

IsDigits(s) == s # <<>> /\ \A i \in 1..Len(s) : IsDigit(s[i])

RECURSIVE Decimal(_)
\* The number a string of digits denotes, read from its last digit.
Decimal(s) ==
    IF s = <<>> THEN 0
    ELSE 10 * Decimal(SubSeq(s, 1, Len(s) - 1)) + DigitValue(s[Len(s)])

\* A base-10 integer: digits, with or without a sign before them.
IsInteger(s) ==
    \/ IsDigits(s)
    \/ Len(s) >= 2 /\ s[1] \in {"-", "+"} /\ IsDigits(Tail(s))

IntegerValue(s) ==
    IF s[1] = "-" THEN 0 - Decimal(Tail(s))
    ELSE IF s[1] = "+" THEN Decimal(Tail(s))
    ELSE Decimal(s)

\* What C8 says of one field, given the values of its attribute.
OccursField(vals, field, isMax) ==
    /\ (vals = {} \/ vals = {<<>>}) => field = Num(1)
    /\ \A v \in vals :
          /\ (isMax /\ v = S_unbounded) => field = Infinity
          /\ (~isMax /\ v = S_unbounded) => field # Infinity
          /\ IsInteger(v) => field = Num(IntegerValue(v))

\* C8: parseMinMaxOccurs returns min = 1 for an absent or empty minOccurs and
\* the integer it denotes otherwise, max = 1 for an absent or empty maxOccurs,
\* infinity for 'unbounded' and the integer it denotes otherwise; each field
\* depends on its own attribute only, and 'unbounded' is not taken for min.
C8_OccursDefaultsAndValues ==
    call.op = "parseMinMaxOccurs" =>
        /\ result.t = "object"
        /\ OccursField(PlainValues(doc[call.node], S_minOccurs), result.v.min, FALSE)
        /\ OccursField(PlainValues(doc[call.node], S_maxOccurs), result.v.max, TRUE)

\* C8 witness: minOccurs="0" and maxOccurs="5" gave { min: 0, max: 5 }.
C8_Witness ==
    /\ call.op = "parseMinMaxOccurs"
    /\ PlainValues(doc[call.node], S_minOccurs) = {<<"0">>}
    /\ PlainValues(doc[call.node], S_maxOccurs) = {<<"5">>}
    /\ result = Obj([min |-> Num(0), max |-> Num(5)])

\* C9: parseMinMaxOccurs does not raise, and a non-empty attribute (other than
\* maxOccurs = 'unbounded') that is not a base-10 integer gives not-a-number.
C9_MalformedIsNaN ==
    call.op = "parseMinMaxOccurs" =>
        /\ result.t = "object"
        /\ \A v \in PlainValues(doc[call.node], S_minOccurs) :
              (v # <<>> /\ ~IsInteger(v)) => result.v.min = NaN
        /\ \A v \in PlainValues(doc[call.node], S_maxOccurs) :
              (v # <<>> /\ v # S_unbounded /\ ~IsInteger(v)) => result.v.max = NaN

\* C10: a field of the result that is a number is an integer >= 0 (max may
\* also be infinity), whatever the attributes, and min is never infinity.
C10_OccursRangeNonNegative ==
    call.op = "parseMinMaxOccurs" =>
        /\ result.v.min.t \in {"number", "NaN"}
        /\ result.v.max.t \in {"number", "NaN", "Infinity"}
        /\ result.v.min.t = "number" => result.v.min.v \in Nat
        /\ result.v.max.t = "number" => result.v.max.v \in Nat

====
